---- MODULE Spec2Model ----
(***************************************************************************)
(* Audio-assembly engine of Englishreadercreator (utils/audioUtils.ts):    *)
(* mergeAudioBuffers, bufferToWav, createWavHeader and decodeRawPCM.       *)
(*                                                                         *)
(* Representation.                                                         *)
(*  - A sample is an integer n standing for the float n / 32768.  Every    *)
(*    value the model uses is exactly representable in a Float32Array, and *)
(*    the products the code forms with 32767 and 32768 are exact in double *)
(*    arithmetic, so integer arithmetic reproduces the code's results.     *)
(*  - A delay is an integer d standing for d / 2^14 seconds.  A dyadic     *)
(*    unit keeps item.delay * sampleRate exact in double arithmetic.       *)
(*  - An AudioBuffer is a record; a Float32Array, a DataView and a         *)
(*    Uint8Array are sequences (1-based: frame j of the code is j + 1).    *)
(***************************************************************************)
EXTENDS Integers, Sequences, FiniteSets, TLC

\* ------------------------------------------------------------------ bounds
MaxItems == 2
MaxChannels == 2
MaxFrames == 2
MaxBytes == 4
MaxLength == 15
MaxSegments == 2
MaxDuration == 6

\* ------------------------------------------------------- program constants
ContextRate == 24000
PcmRate == 24000
PcmChannels == 1
HeaderBytes == 44
NegScale == 32768
PosScale == 32767
PcmNorm == 32768

SampleDen == 2 ^ 15
DelayDen == 2 ^ 14

NoBuffer == [none |-> TRUE]

\* ----------------------------------------------------------------- helpers
RECURSIVE SumSeq(_)
SumSeq(s) == IF s = <<>> THEN 0 ELSE Head(s) + SumSeq(Tail(s))

Zeros(n) == [j \in 1..n |-> 0]

\* Math.floor(x) for the rational x = num / den, den > 0
Floor(num, den) == num \div den

\* AudioContext.createBuffer / new AudioBuffer: the Web Audio API rejects a
\* length or a channel count below 1 with NotSupportedError.
CanCreateBuffer(numberOfChannels, length) == numberOfChannels >= 1 /\ length >= 1

createBuffer(numberOfChannels, length, sampleRate) ==
  [numberOfChannels |-> numberOfChannels,
   length |-> length,
   sampleRate |-> sampleRate,
   channels |-> [c \in 1..numberOfChannels |-> Zeros(length)]]

\* buffer.getChannelData(c), c counted from 0 as in the code
getChannelData(buffer, c) == buffer.channels[c + 1]

\* --------------------------------------------------------- mergeAudioBuffers
audioContext == [sampleRate |-> ContextRate]

\* Math.floor(item.delay * audioContext.sampleRate)
delaySamples(item) == Floor(item.delay * audioContext.sampleRate, DelayDen)

\* mutant: one floor over the summed delays instead of one per item
calcTotalLength_FloorOfSum(its) ==
  SumSeq([k \in 1..Len(its) |-> its[k].buffer.length])
    + Floor(SumSeq([k \in 1..Len(its) |-> its[k].delay]) * audioContext.sampleRate,
            DelayDen)

\* mutant: the total leaves the delays out
calcTotalLength_NoDelay(its) ==
  SumSeq([k \in 1..Len(its) |-> its[k].buffer.length])

\* 1. Calculate total length (the forEach loop)
calcTotalLength(its) ==
  SumSeq([k \in 1..Len(its) |-> its[k].buffer.length + delaySamples(its[k])])

\* mutant: reads the last channel instead of the first
mergeInputData_LastChannel(item) ==
  getChannelData(item.buffer, item.buffer.numberOfChannels - 1)

\* item.buffer.getChannelData(0): take first channel
mergeInputData(item) == getChannelData(item.buffer, 0)

\* TypedArray.prototype.set(source, offset) throws RangeError when the source
\* does not fit at the offset
SetFits(target, source, offset) ==
  offset >= 0 /\ Len(source) + offset <= Len(target)

\* mutant: the copy stops one sample short
TypedArraySet_OneShort(target, source, offset) ==
  [j \in 1..Len(target) |->
     IF j > offset /\ j < offset + Len(source) THEN source[j - offset]
     ELSE target[j]]

TypedArraySet(target, source, offset) ==
  [j \in 1..Len(target) |->
     IF j > offset /\ j <= offset + Len(source) THEN source[j - offset]
     ELSE target[j]]

\* mutant: the offset is not moved past the delay
nextOffset_NoDelay(offset, item) == offset + Len(mergeInputData(item))

\* offset after one loop iteration
nextOffset(offset, item) == offset + Len(mergeInputData(item)) + delaySamples(item)

\* mutant: the output takes the rate of the first item's buffer
mergeOutputRate_FirstItem(its) ==
  IF its = <<>> THEN audioContext.sampleRate ELSE its[1].buffer.sampleRate

\* sample rate of the buffer the merge returns
mergeOutputRate(its) == audioContext.sampleRate

\* the locals of one call of mergeAudioBuffers
MergeEntry ==
  [pc |-> "total", totalLength |-> 0, offset |-> 0, idx |-> 1,
   outputData |-> <<>>, result |-> NoBuffer, error |-> "none"]

\* mutant: no early return for a zero total
mergeTotalStep_NoZeroCheck(f, its) ==
  [f EXCEPT !.totalLength = calcTotalLength(its), !.pc = "create"]

\* lines 177-188: total length and the zero-length early return
mergeTotalStep(f, its) ==
  LET total == calcTotalLength(its) IN
  IF total = 0
  THEN [f EXCEPT !.totalLength = total, !.pc = "done",
                 !.result = createBuffer(1, 1, mergeOutputRate(its))]
  ELSE [f EXCEPT !.totalLength = total, !.pc = "create"]

\* lines 190-199: create the output buffer
mergeCreateStep(f, its) ==
  IF CanCreateBuffer(1, f.totalLength)
  THEN [f EXCEPT !.outputData = Zeros(f.totalLength), !.offset = 0, !.idx = 1,
                 !.pc = "copy"]
  ELSE [f EXCEPT !.pc = "done", !.error = "NotSupportedError"]

\* lines 200-210: one iteration of the merge loop
mergeCopyStep(f, its) ==
  LET item == its[f.idx]
      inputData == mergeInputData(item) IN
  IF SetFits(f.outputData, inputData, f.offset)
  THEN [f EXCEPT !.outputData = TypedArraySet(f.outputData, inputData, f.offset),
                 !.offset = nextOffset(f.offset, item),
                 !.idx = f.idx + 1]
  ELSE [f EXCEPT !.pc = "done", !.error = "RangeError"]

\* line 212: return result
mergeReturnStep(f, its) ==
  [f EXCEPT !.pc = "done",
            !.result = [numberOfChannels |-> 1,
                        length |-> f.totalLength,
                        sampleRate |-> mergeOutputRate(its),
                        channels |-> <<f.outputData>>]]

\* ------------------------------------------------------------- bufferToWav
\* DataView.setUint8 / setUint16 / setUint32 (little-endian) at byte pos,
\* counted from 0.  LE16 and LE32 keep the low 2 and 4 bytes of the value
\* (floored division by powers of 256), which is the value modulo 2^16, 2^32.
WriteBytes(view, pos, bytes) ==
  [b \in 1..Len(view) |->
     IF b > pos /\ b <= pos + Len(bytes) THEN bytes[b - pos] ELSE view[b]]

LE16(data) == << data % 256, (data \div 256) % 256 >>
LE32(data) ==
  << data % 256, (data \div 256) % 256, (data \div 65536) % 256,
     (data \div 16777216) % 256 >>

setUint16(view, pos, data) == WriteBytes(view, pos, LE16(data))
setUint32(view, pos, data) == WriteBytes(view, pos, LE32(data))

\* ToInt16 of the number num / den: truncate toward zero, then wrap to 16 bits
Trunc(num, den) == IF num >= 0 THEN num \div den ELSE -((-num) \div den)

\* mutant: the littleEndian flag is left out, so the word is written big-endian
setInt16_BigEndian(view, pos, num, den) ==
  WriteBytes(view, pos, << (Trunc(num, den) \div 256) % 256, Trunc(num, den) % 256 >>)

setInt16(view, pos, num, den) == WriteBytes(view, pos, LE16(Trunc(num, den)))

\* const length = buffer.length * numOfChan * 2 + 44
wavLength(buffer) == buffer.length * buffer.numberOfChannels * 2 + HeaderBytes

\* setUint32(length - 8): file length - 8
wavRiffSize(length) == length - 8

\* mutant: the data chunk length counts the header too
wavDataChunkLength_WithHeader(length, pos) == length - 8

\* setUint32(length - pos - 4): chunk length
wavDataChunkLength(length, pos) == length - pos - 4

\* the header fields in writing order, each <<width, value>>; the data chunk
\* length follows them
wavHeaderFields(buffer, length) ==
  LET numOfChan == buffer.numberOfChannels IN
  << <<4, \h46464952>>,                        \* "RIFF"
     <<4, wavRiffSize(length)>>,
     <<4, \h45564157>>,                        \* "WAVE"
     <<4, \h20746d66>>,                        \* "fmt " chunk
     <<4, 16>>,                                \* length = 16
     <<2, 1>>,                                 \* PCM (uncompressed)
     <<2, numOfChan>>,
     <<4, buffer.sampleRate>>,
     <<4, buffer.sampleRate * 2 * numOfChan>>, \* avg. bytes/sec
     <<2, numOfChan * 2>>,                     \* block-align
     <<2, 16>>,                                \* 16-bit
     <<4, \h61746164>> >>                      \* "data" - chunk

\* the local setUint16 / setUint32 helpers: write at pos, then advance pos
RECURSIVE wavWriteFields(_, _, _)
wavWriteFields(view, pos, fields) ==
  IF fields = <<>> THEN [view |-> view, pos |-> pos]
  ELSE LET fld == Head(fields) IN
       wavWriteFields(IF fld[1] = 2 THEN setUint16(view, pos, fld[2])
                                    ELSE setUint32(view, pos, fld[2]),
                      pos + fld[1], Tail(fields))

\* sample = Math.max(-1, Math.min(1, sample)), samples in units of 1 / SampleDen
Min(a, b) == IF a < b THEN a ELSE b
Max(a, b) == IF a > b THEN a ELSE b
clampSample(sample) == Max(-SampleDen, Min(SampleDen, sample))

\* mutant: one scale factor for both signs
scaleSample_Symmetric(sample) == sample * NegScale

\* sample < 0 ? sample * 32768 : sample * 32767 (numerator over SampleDen)
scaleSample(sample) == IF sample < 0 THEN sample * NegScale ELSE sample * PosScale

\* mutant: every channel slot is filled from channel 0
wavReadSample_Channel0(channels, i, sampleIndex) == channels[1][sampleIndex + 1]

\* channels[i][sampleIndex]
wavReadSample(channels, i, sampleIndex) == channels[i + 1][sampleIndex + 1]

\* the locals of one call of bufferToWav
WavIdle ==
  [pc |-> "idle", length |-> 0, view |-> <<>>, pos |-> 0, sampleIndex |-> 0,
   i |-> 0, blob |-> <<>>]
WavEntry == [WavIdle EXCEPT !.pc = "header"]

\* lines 219-258: allocate the bytes and write the WAVE header
wavHeaderStep(f, buffer) ==
  LET length == wavLength(buffer)
      w == wavWriteFields(Zeros(length), 0, wavHeaderFields(buffer, length)) IN
  [f EXCEPT !.length = length,
            !.view = setUint32(w.view, w.pos, wavDataChunkLength(length, w.pos)),
            !.pos = w.pos + 4,
            !.sampleIndex = 0, !.i = 0, !.pc = "data"]

\* lines 259-270: one pass of the inner loop (one sample of one channel)
wavSampleStep(f, buffer) ==
  LET numOfChan == buffer.numberOfChannels
      sample == scaleSample(clampSample(wavReadSample(buffer.channels, f.i, f.sampleIndex)))
      last == f.i + 1 >= numOfChan IN
  [f EXCEPT !.view = setInt16(f.view, f.pos, sample, SampleDen),
            !.pos = f.pos + 2,
            !.i = IF last THEN 0 ELSE f.i + 1,
            !.sampleIndex = IF last THEN f.sampleIndex + 1 ELSE f.sampleIndex]

\* line 272: new Blob([bufferArray])
wavReturnStep(f, buffer) == [f EXCEPT !.blob = f.view, !.pc = "done"]

\* ---------------------------------------------------------- createWavHeader
writeString(view, offset, string) == WriteBytes(view, offset, string)

createWavHeader(length, sampleRate, numChannels) ==
  LET v0 == Zeros(HeaderBytes)
      v1 == writeString(v0, 0, <<82, 73, 70, 70>>)        \* 'RIFF'
      v2 == setUint32(v1, 4, 36 + length)
      v3 == writeString(v2, 8, <<87, 65, 86, 69>>)        \* 'WAVE'
      v4 == writeString(v3, 12, <<102, 109, 116, 32>>)    \* 'fmt '
      v5 == setUint32(v4, 16, 16)
      v6 == setUint16(v5, 20, 1)
      v7 == setUint16(v6, 22, numChannels)
      v8 == setUint32(v7, 24, sampleRate)
      v9 == setUint32(v8, 28, sampleRate * numChannels * 2)
      v10 == setUint16(v9, 32, numChannels * 2)
      v11 == setUint16(v10, 34, 16)
      v12 == writeString(v11, 36, <<100, 97, 116, 97>>)   \* 'data'
  IN setUint32(v12, 40, length)

\* ------------------------------------------------------------- decodeRawPCM
\* mutant: the 16-bit words are read unsigned
int16At_Unsigned(bytes, i) == bytes[2 * i + 1] + 256 * bytes[2 * i + 2]

\* int16Array[i]: the signed little-endian word at bytes 2i and 2i + 1
int16At(bytes, i) ==
  LET u == bytes[2 * i + 1] + 256 * bytes[2 * i + 2] IN
  IF u >= 32768 THEN u - 65536 ELSE u

\* mutant: a trailing odd byte is dropped instead of rejected
CanViewAsInt16_DropsOddByte(bytes) == TRUE

\* new Int16Array(uint8Array.buffer) throws RangeError unless the byte length
\* is a multiple of 2
CanViewAsInt16(bytes) == Len(bytes) % 2 = 0

\* channelData[i] = int16Array[i] / 32768.0, in units of 1 / SampleDen
normalizeInt16(v) == (v * SampleDen) \div PcmNorm

DecodeIdle == [pc |-> "idle", error |-> "none"]
DecodeEntry == [DecodeIdle EXCEPT !.pc = "decode"]

\* the buffer decodeRawPCM returns
decodedBuffer(bytes) ==
  LET n == Len(bytes) \div 2 IN
  [numberOfChannels |-> PcmChannels,
   length |-> n,
   sampleRate |-> PcmRate,
   channels |-> [c \in 1..PcmChannels |->
                   [j \in 1..n |-> normalizeInt16(int16At(bytes, j - 1))]]]

\* ------------------------------------------------------------------ readWav
\* The repository has no WAV reader (uploads go through the host's
\* decodeAudioData); readWav is the reader the specification describes in
\* section 4.2.  Its samples are fractions <<numerator, denominator>>.
readWavU16(bytes, off) == bytes[off + 1] + 256 * bytes[off + 2]
readWavU32(bytes, off) ==
  bytes[off + 1] + 256 * bytes[off + 2] + 65536 * bytes[off + 3]
    + 16777216 * bytes[off + 4]
readWavS16(bytes, off) ==
  IF readWavU16(bytes, off) >= 32768
  THEN readWavU16(bytes, off) - 65536 ELSE readWavU16(bytes, off)

\* markers in order, 16 bits per sample, data chunk inside the bytes
readWavWellFormed(bytes) ==
  /\ Len(bytes) >= 44
  /\ SubSeq(bytes, 1, 4) = <<82, 73, 70, 70>>
  /\ SubSeq(bytes, 9, 12) = <<87, 65, 86, 69>>
  /\ SubSeq(bytes, 13, 16) = <<102, 109, 116, 32>>
  /\ SubSeq(bytes, 37, 40) = <<100, 97, 116, 97>>
  /\ readWavU16(bytes, 34) = 16
  /\ readWavU16(bytes, 22) >= 1
  /\ readWavU32(bytes, 40) <= Len(bytes) - 44

\* inverse scaling: v / 32768 below zero, v / 32767 from zero up
readWavSample(v) == IF v < 0 THEN <<v, 32768>> ELSE <<v, 32767>>

readWavBuffer(bytes) ==
  LET numberOfChannels == readWavU16(bytes, 22)
      length == readWavU32(bytes, 40) \div (numberOfChannels * 2) IN
  [numberOfChannels |-> numberOfChannels,
   length |-> length,
   sampleRate |-> readWavU32(bytes, 24),
   channels |-> [c \in 1..numberOfChannels |->
                   [j \in 1..length |->
                      readWavSample(readWavS16(bytes,
                        44 + 2 * ((j - 1) * numberOfChannels + (c - 1))))]]]

ReadIdle == [pc |-> "idle", buffer |-> NoBuffer, error |-> "none"]

\* ---------------------------------------------------- times and durations
\* A time in seconds is the fraction num / den.  exact says that the double
\* holds the fraction itself (a dyadic value); buffer.duration is the rounded
\* quotient length / sampleRate and is not exact.
TimeDen == 2 ^ 16

Time(n) == [num |-> n, den |-> TimeDen, exact |-> TRUE]

duration(buffer) ==
  [num |-> buffer.length, den |-> buffer.sampleRate, exact |-> FALSE]

\* a < b on doubles.  Rounding is monotone and no duration of the buffers
\* below 64 frames equals a dyadic time, so the order is that of the fractions.
TimeLess(a, b) == a.num * b.den < b.num * a.den

\* <<sampleRate, length>> for which the double product
\* (length / sampleRate) * sampleRate lies just below length (lengths to 64)
DurationRoundsBelow ==
  {<<24000, 27>>, <<24000, 49>>, <<24000, 54>>, <<24000, 61>>,
   <<44100, 15>>, <<44100, 23>>, <<44100, 30>>, <<44100, 46>>,
   <<44100, 53>>, <<44100, 60>>}

\* Math.floor(buffer.duration * sampleRate)
durationFrames(length, sampleRate) ==
  IF <<sampleRate, length>> \in DurationRoundsBelow THEN length - 1 ELSE length

\* Math.floor(time * sampleRate) of a time within one buffer
frameOf(time, sampleRate) ==
  IF time.exact THEN Floor(time.num * sampleRate, time.den)
  ELSE durationFrames(time.num, sampleRate)

\* ----------------------------------------------------- unsigned long lengths
\* The length handed to OfflineAudioContext is an unsigned long: the double
\* is truncated, taken modulo 2^32, and Infinity becomes 0.  A magnitude is
\* kept in two 16-bit limbs, hi * 2^16 + lo.
LimbBase == 2 ^ 16

Limbs(hi, lo) == [hi |-> hi + lo \div LimbBase, lo |-> lo % LimbBase]

LimbsPred(m) ==
  IF m.lo = 0 THEN [hi |-> m.hi - 1, lo |-> LimbBase - 1]
  ELSE [hi |-> m.hi, lo |-> m.lo - 1]

\* speed = sign * num / (denHi * 2^16 + denLo); sign = 0 is the speed 0
Speed(sign, num, denHi, denLo) ==
  [sign |-> sign, num |-> num, denHi |-> denHi, denLo |-> denLo]

UnitSpeed == Speed(1, 1, 0, 1)

\* lengths (to 64) for which the double ((length / rate) / speed) * rate
\* lies just inside the next integer toward zero
SpeedRoundsBelow(speed, sampleRate) ==
  IF speed = Speed(1, 4, 0, 5)
  THEN (IF sampleRate = 24000 THEN {52} ELSE {12, 24, 36, 48, 60})
  ELSE IF speed = Speed(-1, 1, 0, 1)
  THEN {l \in 1..64 : <<sampleRate, l>> \in DurationRoundsBelow}
  ELSE IF speed = Speed(-1, 1, 65535, 65280)
  THEN (IF sampleRate = 24000 THEN {23, 45, 46, 47, 49, 59, 61}
        ELSE {15, 30, 49, 60})
  ELSE {}

\* | trunc((buffer.duration / speed) * buffer.sampleRate) | for speed # 0
renderMagnitude(length, sampleRate, speed) ==
  LET a == length * speed.denHi
      b == length * speed.denLo
      q == Limbs(a \div speed.num,
                 ((a % speed.num) * LimbBase + b) \div speed.num)
  IN IF length \in SpeedRoundsBelow(speed, sampleRate) THEN LimbsPred(q) ELSE q

\* conversion of sign * magnitude to unsigned long
ToUint32(sign, m) ==
  IF sign = 0 \/ (m.hi = 0 /\ m.lo = 0) THEN [hi |-> 0, lo |-> 0]
  ELSE IF sign > 0 THEN [hi |-> m.hi % LimbBase, lo |-> m.lo]
  ELSE IF m.lo = 0 THEN [hi |-> (LimbBase - (m.hi % LimbBase)) % LimbBase, lo |-> 0]
  ELSE [hi |-> LimbBase - 1 - (m.hi % LimbBase), lo |-> LimbBase - m.lo]

\* new OfflineAudioContext(channels, length, rate) throws NotSupportedError
\* for length 0 and for a length beyond what the host can hold; every
\* length of 2^16 frames or more that arises here is 2^32 minus a few frames
CanRender(len) == len.hi = 0 /\ len.lo >= 1

\* the buffer startRendering resolves to; its samples are the host's
\* interpolation and are left out
renderedBuffer(numberOfChannels, length, sampleRate) ==
  [numberOfChannels |-> numberOfChannels, length |-> length,
   sampleRate |-> sampleRate]

XfIdle == [pc |-> "idle", result |-> NoBuffer, sameRef |-> FALSE, error |-> "none"]
XfEntry == [XfIdle EXCEPT !.pc = "call"]
XfReturn(buffer, sameRef) ==
  [pc |-> "done", result |-> buffer, sameRef |-> sameRef, error |-> "none"]
XfThrow(error) ==
  [pc |-> "failed", result |-> NoBuffer, sameRef |-> FALSE, error |-> error]

\* ------------------------------------------------------ resampleAudioBuffer
\* mutant: the early return is missing
isUnitSpeed_Never(speed) == FALSE

isUnitSpeed(speed) == speed = UnitSpeed

resampleLength(buffer, speed) ==
  ToUint32(speed.sign,
           IF speed.sign = 0 THEN [hi |-> 0, lo |-> 0]
           ELSE renderMagnitude(buffer.length, buffer.sampleRate, speed))

resampleAudioBuffer(buffer, speed) ==
  IF isUnitSpeed(speed) THEN XfReturn(buffer, TRUE)
  ELSE IF ~CanRender(resampleLength(buffer, speed)) THEN XfThrow("NotSupportedError")
  ELSE XfReturn(renderedBuffer(buffer.numberOfChannels,
                               resampleLength(buffer, speed).lo,
                               buffer.sampleRate), FALSE)

\* -------------------------------------------------------- convertSampleRate
\* trunc(buffer.duration * targetRate); for the rates 24000 and 44100 the
\* double product has the floor of the exact one (lengths to 64)
convertLength(buffer, targetRate) ==
  Floor(buffer.length * targetRate, buffer.sampleRate)

convertSampleRate(buffer, targetRate) ==
  IF buffer.sampleRate = targetRate THEN XfReturn(buffer, TRUE)
  ELSE IF convertLength(buffer, targetRate) = 0 THEN XfThrow("NotSupportedError")
  ELSE XfReturn(renderedBuffer(buffer.numberOfChannels,
                               convertLength(buffer, targetRate),
                               targetRate), FALSE)

\* ----------------------------------------------------------- trimAudioBuffer
trimStart(startTime) == IF startTime.num < 0 THEN Time(0) ELSE startTime

trimEnd(buffer, endTime) ==
  IF TimeLess(duration(buffer), endTime) THEN duration(buffer) ELSE endTime

trimSlice(buffer, startFrame, frameCount) ==
  [numberOfChannels |-> buffer.numberOfChannels,
   length |-> frameCount,
   sampleRate |-> buffer.sampleRate,
   channels |-> [c \in 1..buffer.numberOfChannels |->
                   [j \in 1..frameCount |-> buffer.channels[c][j + startFrame]]]]

trimAudioBuffer(buffer, startTime, endTime) ==
  LET start == trimStart(startTime)
      end == trimEnd(buffer, endTime)
      startFrame == frameOf(start, buffer.sampleRate)
      endFrame == frameOf(end, buffer.sampleRate)
      frameCount == endFrame - startFrame
  IN IF ~TimeLess(start, end)
     THEN XfReturn(createBuffer(1, 1, buffer.sampleRate), FALSE)
     ELSE IF ~CanCreateBuffer(buffer.numberOfChannels, frameCount)
     THEN XfThrow("NotSupportedError")
     ELSE XfReturn(trimSlice(buffer, startFrame, frameCount), FALSE)

\* ------------------------------------------- what a call leaves in its input
\* Every write of the engine goes to an array the call made itself: merge
\* writes outputData, a channel of result (lines 196-204); bufferToWav clamps
\* and scales the local variable sample and writes the DataView (lines
\* 262-266); trim writes newBuffer.getChannelData(i) (lines 158-165);
\* resample and convert hand the buffer to a source node, which reads it.

\* mutant: the clamped value is stored back into the channel
inputAfterWavSample_ClampInPlace(buffer, i, sampleIndex) ==
  [buffer EXCEPT !.channels[i + 1][sampleIndex + 1] =
     clampSample(wavReadSample(buffer.channels, i, sampleIndex))]

inputAfterWavSample(buffer, i, sampleIndex) == buffer

inputAfterMergeCopy(its, idx) == its

inputAfterRender(buffer) == buffer

inputAfterTrim(buffer) == buffer

\* ------------------------------------------------ values of the React state
\* null of previewUrl and of globalError
NoUrl == [none |-> TRUE]
NoError == "null"

\* the locals of one run of handleGeneratePreview, idle between runs
GenIdle ==
  [pc |-> "idle", segs |-> <<>>, idx |-> 0, mergeList |-> <<>>,
   mergeArgs |-> <<>>, merged |-> FALSE, changed |-> FALSE, outcome |-> "none"]

\* what the handlers of the last render closed over and read:
\* segments.length (handleRemoveSegment), previewUrl (handleSegmentChange)
\* and isProcessing (the disabled attribute of the preview button)
ViewOf(segs, url, processing) ==
  [length |-> Len(segs), previewUrl |-> url, isProcessing |-> processing]

NoSegment == [none |-> TRUE]
TtsIdle == [pc |-> "idle", text |-> "", voice |-> "none"]
NoTrim == [none |-> TRUE]

\* ------------------------------------------------------------------- state
VARIABLES
  items,      \* the (buffer, delay) list handed to mergeAudioBuffers
  itemsAlt,   \* a second list: same channel 0 and delays, other channels differ
  run,        \* locals of the call on items
  runAlt,     \* locals of the call on itemsAlt
  pcmBytes,   \* the bytes base64ToUint8Array hands to decodeRawPCM
  dec,        \* locals of the call of decodeRawPCM
  wavBuffer,  \* the AudioBuffer handed to bufferToWav
  enc,        \* locals of the call of bufferToWav
  rd,         \* outcome of readWav on the bytes bufferToWav returned
  xfBuffer,   \* the AudioBuffer handed to resample, convert or trim
  xfArgs,     \* the other arguments of that call
  xf,         \* outcome of that call
  segments,   \* App: the segment list
  previewUrl, \* App: object URL of the merged preview, or NoUrl
  isProcessing, \* App
  globalError,  \* App
  view,       \* the state values the handlers of the last render closed over
  gen,        \* locals of the run of handleGeneratePreview
  nextId,     \* stands for uuidv4: the next unused segment id
  seg,        \* SegmentItem: the segment of the text item
  tts,        \* the generateSpeech request in flight
  segSeen,    \* the segment prop the text item's handlers closed over
  trim,       \* SegmentItem: duration, trimStart, trimEnd of the uploaded item
  isDragging, \* SegmentItem: "start", "end" or "null"
  trimSeen    \* the trim values the listener handleMove closed over

mergeVars == <<items, itemsAlt, run, runAlt>>
codecVars == <<pcmBytes, dec, wavBuffer, enc, rd>>
transformVars == <<xfBuffer, xfArgs, xf>>
engineVars == <<mergeVars, codecVars, transformVars>>
appVars == <<segments, previewUrl, isProcessing, globalError, view, gen, nextId>>
voiceVars == <<seg, tts, segSeen>>
trimVars == <<trim, isDragging, trimSeen>>
uiVars == <<appVars, voiceVars, trimVars>>
vars == <<engineVars, uiVars>>

AppUnused ==
  /\ segments = <<>> /\ previewUrl = NoUrl /\ isProcessing = FALSE
  /\ globalError = NoError /\ view = ViewOf(<<>>, NoUrl, FALSE)
  /\ gen = GenIdle /\ nextId = 0
VoiceUnused == seg = NoSegment /\ tts = TtsIdle /\ segSeen = NoSegment
TrimUnused == trim = NoTrim /\ isDragging = "null" /\ trimSeen = NoTrim
UiUnused == AppUnused /\ VoiceUnused /\ TrimUnused

NoArgs == [op |-> "none"]
XfUnused == xfBuffer = NoBuffer /\ xfArgs = NoArgs /\ xf = XfIdle

MergeIdle == [MergeEntry EXCEPT !.pc = "idle"]

\* ------------------------------------------------------------------ inputs
\* buffer sample rates: the working rate and a typical uploaded-file rate
Rates == {24000, 44100}
\* delays in units of 1 / DelayDen seconds; negative values are outside the
\* data model (delay >= 0) but the function accepts any number
Delays == {-1, 0, 2}

ItemShapes ==
  [numberOfChannels : 1..MaxChannels, length : 1..MaxFrames,
   sampleRate : Rates, delay : Delays]

\* Buffer of item k.  Channel 0 carries the distinct non-zero samples
\* 100k + j; the other channels carry fill * (100k + 10c + j).
ItemBuffer(k, numberOfChannels, length, sampleRate, fill) ==
  [numberOfChannels |-> numberOfChannels,
   length |-> length,
   sampleRate |-> sampleRate,
   channels |-> [c \in 1..numberOfChannels |->
                   [j \in 1..length |->
                      IF c = 1 THEN 100 * k + j
                      ELSE fill * (100 * k + 10 * (c - 1) + j)]]]

ItemsOf(shape) ==
  [k \in 1..Len(shape) |->
     [buffer |-> ItemBuffer(k, shape[k].numberOfChannels, shape[k].length,
                            shape[k].sampleRate, 1),
      delay |-> shape[k].delay]]

\* same channel 0, lengths, rates and delays; the channel count is mirrored
\* and the contents of channels 1..N are negated
AltItemsOf(shape) ==
  [k \in 1..Len(shape) |->
     [buffer |-> ItemBuffer(k, MaxChannels + 1 - shape[k].numberOfChannels,
                            shape[k].length, shape[k].sampleRate, -1),
      delay |-> shape[k].delay]]

InitMerge ==
  \E n \in 0..MaxItems :
    \E shape \in [1..n -> ItemShapes] :
      /\ items = ItemsOf(shape)
      /\ itemsAlt = AltItemsOf(shape)
      /\ run = MergeEntry
      /\ runAlt = MergeEntry
      /\ pcmBytes = <<>> /\ dec = DecodeIdle
      /\ wavBuffer = NoBuffer /\ enc = WavIdle /\ rd = ReadIdle
      /\ XfUnused
      /\ UiUnused

\* ----------------------------------------------------------------- actions
\* the call on itemsAlt takes the same step when it stands at the same place
AltTotal == IF runAlt.pc = "total" THEN mergeTotalStep(runAlt, itemsAlt) ELSE runAlt
AltCreate == IF runAlt.pc = "create" THEN mergeCreateStep(runAlt, itemsAlt) ELSE runAlt
AltCopy ==
  IF runAlt.pc = "copy" /\ runAlt.idx <= Len(itemsAlt)
  THEN mergeCopyStep(runAlt, itemsAlt) ELSE runAlt
AltReturn ==
  IF runAlt.pc = "copy" /\ runAlt.idx > Len(itemsAlt)
  THEN mergeReturnStep(runAlt, itemsAlt) ELSE runAlt

MergeTotal ==
  /\ run.pc = "total"
  /\ run' = mergeTotalStep(run, items)
  /\ runAlt' = AltTotal
  /\ UNCHANGED <<items, itemsAlt, codecVars, transformVars, uiVars>>

MergeCreate ==
  /\ run.pc = "create"
  /\ run' = mergeCreateStep(run, items)
  /\ runAlt' = AltCreate
  /\ UNCHANGED <<items, itemsAlt, codecVars, transformVars, uiVars>>

MergeCopy ==
  /\ run.pc = "copy"
  /\ run.idx <= Len(items)
  /\ run' = mergeCopyStep(run, items)
  /\ runAlt' = AltCopy
  /\ items' = inputAfterMergeCopy(items, run.idx)
  /\ itemsAlt' = IF runAlt.pc = "copy" THEN inputAfterMergeCopy(itemsAlt, runAlt.idx)
                 ELSE itemsAlt
  /\ UNCHANGED <<codecVars, transformVars, uiVars>>

MergeReturn ==
  /\ run.pc = "copy"
  /\ run.idx > Len(items)
  /\ run' = mergeReturnStep(run, items)
  /\ runAlt' = AltReturn
  /\ UNCHANGED <<items, itemsAlt, codecVars, transformVars, uiVars>>

NextMerge == MergeTotal \/ MergeCreate \/ MergeCopy \/ MergeReturn

SpecMerge == InitMerge /\ [][NextMerge]_vars

\* ------------------------------------------------------------ codec inputs
\* sample values in units of 1 / SampleDen: -2.0, -1.0, just above -1.0, the
\* smallest steps around 0, 0.5, just below 1.0, 1.0 and 1.5
WavSamples == <<-65536, -32768, -32767, -1, 0, 1, 16384, 32767, 32768, 49152>>

\* One AudioBuffer per shape and phase: frame f of channel c holds the
\* sample at place phase + f * channels + c of WavSamples, cyclically.
WavInputBuffer(numberOfChannels, length, sampleRate, phase) ==
  [numberOfChannels |-> numberOfChannels,
   length |-> length,
   sampleRate |-> sampleRate,
   channels |-> [c \in 1..numberOfChannels |->
                   [j \in 1..length |->
                      WavSamples[((phase + (j - 1) * numberOfChannels + (c - 1))
                                    % Len(WavSamples)) + 1]]]]

WavInputs ==
  { WavInputBuffer(n, l, r, ph) :
      n \in 1..MaxChannels, l \in 1..MaxFrames, r \in Rates,
      ph \in 0..(Len(WavSamples) - 1) }

\* payload bytes of the speech service; callers pass a non-empty payload
\* (generateSpeech throws on an empty one, App.tsx tests seg.audioBase64)
PcmByteValues == {0, 1, 127, 128, 255}
PcmInputs == UNION { [1..n -> PcmByteValues] : n \in 1..MaxBytes }

InitCodec ==
  /\ items = <<>> /\ itemsAlt = <<>> /\ run = MergeIdle /\ runAlt = MergeIdle
  /\ rd = ReadIdle
  /\ XfUnused
  /\ UiUnused
  /\ \/ /\ pcmBytes \in PcmInputs
        /\ dec = DecodeEntry
        /\ wavBuffer = NoBuffer
        /\ enc = WavIdle
     \/ /\ pcmBytes = <<>>
        /\ dec = DecodeIdle
        /\ wavBuffer \in WavInputs
        /\ enc = WavEntry

\* decodeRawPCM (lines 54-73); its buffer then goes to bufferToWav, as in
\* SegmentItem.tsx 708-710 at speed 1.0
DecodeRawPCM ==
  /\ dec.pc = "decode"
  /\ IF ~CanViewAsInt16(pcmBytes)
     THEN /\ dec' = [dec EXCEPT !.pc = "failed", !.error = "RangeError"]
          /\ UNCHANGED <<wavBuffer, enc>>
     ELSE IF ~CanCreateBuffer(PcmChannels, Len(pcmBytes) \div 2)
     THEN /\ dec' = [dec EXCEPT !.pc = "failed", !.error = "NotSupportedError"]
          /\ UNCHANGED <<wavBuffer, enc>>
     ELSE /\ dec' = [dec EXCEPT !.pc = "done"]
          /\ wavBuffer' = decodedBuffer(pcmBytes)
          /\ enc' = WavEntry
  /\ UNCHANGED <<pcmBytes, rd, mergeVars, transformVars, uiVars>>

WavHeader ==
  /\ enc.pc = "header"
  /\ enc' = wavHeaderStep(enc, wavBuffer)
  /\ UNCHANGED <<pcmBytes, dec, wavBuffer, rd, mergeVars, transformVars, uiVars>>

WavSample ==
  /\ enc.pc = "data"
  /\ enc.sampleIndex < wavBuffer.length
  /\ enc' = wavSampleStep(enc, wavBuffer)
  /\ wavBuffer' = inputAfterWavSample(wavBuffer, enc.i, enc.sampleIndex)
  /\ UNCHANGED <<pcmBytes, dec, rd, mergeVars, transformVars, uiVars>>

WavReturn ==
  /\ enc.pc = "data"
  /\ enc.sampleIndex >= wavBuffer.length
  /\ enc' = wavReturnStep(enc, wavBuffer)
  /\ UNCHANGED <<pcmBytes, dec, wavBuffer, rd, mergeVars, transformVars, uiVars>>

\* readWav on the emitted bytes
ReadWav ==
  /\ enc.pc = "done"
  /\ rd.pc = "idle"
  /\ rd' = IF readWavWellFormed(enc.blob)
           THEN [pc |-> "done", buffer |-> readWavBuffer(enc.blob), error |-> "none"]
           ELSE [pc |-> "failed", buffer |-> NoBuffer, error |-> "MalformedAudio"]
  /\ UNCHANGED <<pcmBytes, dec, wavBuffer, enc, mergeVars, transformVars, uiVars>>

NextCodec == DecodeRawPCM \/ WavHeader \/ WavSample \/ WavReturn \/ ReadWav

SpecCodec == InitCodec /\ [][NextCodec]_vars

\* ------------------------------------------- resample, convert, trim calls
\* buffers whose samples name their channel and frame
XfBuffers ==
  { [numberOfChannels |-> n, length |-> l, sampleRate |-> r,
     channels |-> [c \in 1..n |-> [j \in 1..l |-> 100 * c + j]]] :
    n \in 1..MaxChannels, l \in 1..MaxLength, r \in Rates }

\* 1.0 and the presets 1.25 and 0.8, then the speeds the code does not
\* screen: 0, -1 and -1 / (2^32 - 256)
Speeds ==
  {UnitSpeed, Speed(1, 5, 0, 4), Speed(1, 4, 0, 5),
   Speed(0, 0, 0, 1), Speed(-1, 1, 0, 1), Speed(-1, 1, 65535, 65280)}

\* trim times in units of 1 / 2^16 s, and the buffer's own duration as an end
TrimStarts == {Time(n) : n \in {-3, 0, 1, 3, 40}}
TrimEnds(buffer) == {Time(n) : n \in {0, 2, 3, 6, 40, 64}} \cup {duration(buffer)}

XfCalls(buffer) ==
  { [op |-> "resample", speed |-> sp] : sp \in Speeds }
    \cup { [op |-> "convert", targetRate |-> r] : r \in Rates }
    \cup { [op |-> "trim", startTime |-> a, endTime |-> b] :
           a \in TrimStarts, b \in TrimEnds(buffer) }

InitTransform ==
  /\ items = <<>> /\ itemsAlt = <<>> /\ run = MergeIdle /\ runAlt = MergeIdle
  /\ pcmBytes = <<>> /\ dec = DecodeIdle
  /\ wavBuffer = NoBuffer /\ enc = WavIdle /\ rd = ReadIdle
  /\ xfBuffer \in XfBuffers
  /\ xfArgs \in XfCalls(xfBuffer)
  /\ xf = XfEntry
  /\ UiUnused

ResampleAudioBuffer ==
  /\ xf.pc = "call" /\ xfArgs.op = "resample"
  /\ xf' = resampleAudioBuffer(xfBuffer, xfArgs.speed)
  /\ xfBuffer' = inputAfterRender(xfBuffer)
  /\ UNCHANGED <<xfArgs, mergeVars, codecVars, uiVars>>

ConvertSampleRate ==
  /\ xf.pc = "call" /\ xfArgs.op = "convert"
  /\ xf' = convertSampleRate(xfBuffer, xfArgs.targetRate)
  /\ xfBuffer' = inputAfterRender(xfBuffer)
  /\ UNCHANGED <<xfArgs, mergeVars, codecVars, uiVars>>

TrimAudioBuffer ==
  /\ xf.pc = "call" /\ xfArgs.op = "trim"
  /\ xf' = trimAudioBuffer(xfBuffer, xfArgs.startTime, xfArgs.endTime)
  /\ xfBuffer' = inputAfterTrim(xfBuffer)
  /\ UNCHANGED <<xfArgs, mergeVars, codecVars, uiVars>>

NextTransform == ResampleAudioBuffer \/ ConvertSampleRate \/ TrimAudioBuffer

SpecTransform == InitTransform /\ [][NextTransform]_vars

\* ------------------------------------------------------ the engine as a whole
InitEngine == InitMerge \/ InitCodec \/ InitTransform
NextEngine == NextMerge \/ NextCodec \/ NextTransform
SpecEngine == InitEngine /\ [][NextEngine]_vars

EngineUnused ==
  /\ items = <<>> /\ itemsAlt = <<>> /\ run = MergeIdle /\ runAlt = MergeIdle
  /\ pcmBytes = <<>> /\ dec = DecodeIdle
  /\ wavBuffer = NoBuffer /\ enc = WavIdle /\ rd = ReadIdle
  /\ XfUnused

\* ------------------------------------------------------------------ App.tsx
\* A segment keeps the fields the preview reads: its id, whether it holds
\* audio (uploadedAudioURL of an upload, audioBase64 of a text segment) and
\* its delay in half seconds (the slider's step).  Handlers read the state
\* through the closure of the render that made them (view); setState calls
\* take effect on the state at once and reach view at the next Render.
\* The list a generation reads is taken to be the current one.
SegDelays == {0, 2}

\* the segment literal of useState and of handleAddSegment (delay: 1.0)
newSegment(id) == [id |-> id, audio |-> FALSE, delay |-> 2]

SegmentUpdates ==
  { [audio |-> b] : b \in BOOLEAN } \cup { [delay |-> d] : d \in SegDelays }

\* prev.map(s => s.id === id ? { ...s, ...updates } : s)
applyUpdates(segs, id, updates) ==
  [k \in 1..Len(segs) |->
     IF segs[k].id = id
     THEN [f \in DOMAIN segs[k] |->
             IF f \in DOMAIN updates THEN updates[f] ELSE segs[k][f]]
     ELSE segs[k]]

\* prev.filter(s => s.id !== id)
removeById(segs, id) == SelectSeq(segs, LAMBDA sg : sg.id # id)

\* if (segments.length === 1) return;
removeGuard(length) == length = 1

SegmentIds == {segments[k].id : k \in 1..Len(segments)}

\* an object URL; changedSince records whether the segment list was set
\* after the generation that made the URL read it
Url(changed) == [changedSince |-> changed]
touched(url) == IF url = NoUrl THEN NoUrl ELSE Url(TRUE)
touchedGen(g) == IF g.pc = "await" THEN [g EXCEPT !.changed = TRUE] ELSE g

\* the segments the loop of lines 81-102 takes a buffer from
hasContent(sg) == sg.audio

\* index of the first segment from k on whose branch awaits, or Len + 1
nextAwait(segs, k) ==
  IF \E j \in k..Len(segs) : hasContent(segs[j])
  THEN CHOOSE j \in k..Len(segs) :
         hasContent(segs[j]) /\ \A i \in k..(j - 1) : ~hasContent(segs[i])
  ELSE Len(segs) + 1

\* mutant: the entry is put in front
mergeListPush_Unshift(list, sg) ==
  <<[buffer |-> sg.id, delay |-> sg.delay]>> \o list

\* mergeList.push({ buffer, delay: seg.delay }); the buffer is named by the
\* id of the segment it was decoded from
mergeListPush(list, sg) == Append(list, [buffer |-> sg.id, delay |-> sg.delay])

InitApp ==
  /\ EngineUnused /\ VoiceUnused /\ TrimUnused
  /\ segments = <<newSegment(1)>>
  /\ nextId = 2
  /\ previewUrl = NoUrl /\ isProcessing = FALSE /\ globalError = NoError
  /\ view = ViewOf(<<newSegment(1)>>, NoUrl, FALSE)
  /\ gen = GenIdle

\* React renders: the handlers now close over the current state
Render ==
  /\ view # ViewOf(segments, previewUrl, isProcessing)
  /\ view' = ViewOf(segments, previewUrl, isProcessing)
  /\ UNCHANGED <<segments, previewUrl, isProcessing, globalError, gen, nextId,
                 engineVars, voiceVars, trimVars>>

\* handleSegmentChange (lines 29-35)
HandleSegmentChange ==
  \E id \in SegmentIds : \E updates \in SegmentUpdates :
    /\ segments' = applyUpdates(segments, id, updates)
    /\ previewUrl' = IF view.previewUrl # NoUrl THEN NoUrl ELSE touched(previewUrl)
    /\ gen' = touchedGen(gen)
    /\ UNCHANGED <<isProcessing, globalError, view, nextId,
                   engineVars, voiceVars, trimVars>>

\* handleAddSegment (lines 37-53); MaxSegments ids are handed out in all
HandleAddSegment ==
  /\ Len(segments) < MaxSegments /\ nextId <= MaxSegments
  /\ segments' = Append(segments, newSegment(nextId))
  /\ nextId' = nextId + 1
  /\ previewUrl' = NoUrl
  /\ gen' = touchedGen(gen)
  /\ UNCHANGED <<isProcessing, globalError, view, engineVars, voiceVars, trimVars>>

\* handleRemoveSegment (lines 55-59)
HandleRemoveSegment ==
  \E id \in SegmentIds :
    IF removeGuard(view.length)
    THEN UNCHANGED vars
    ELSE /\ segments' = removeById(segments, id)
         /\ previewUrl' = NoUrl
         /\ gen' = touchedGen(gen)
         /\ UNCHANGED <<isProcessing, globalError, view, nextId,
                        engineVars, voiceVars, trimVars>>

\* mutant: the error of an earlier run is not cleared
previewStarts_KeepsError == isProcessing' = TRUE /\ UNCHANGED globalError

\* setIsProcessing(true); setGlobalError(null) (lines 73-74)
previewStarts == isProcessing' = TRUE /\ globalError' = NoError

\* handleGeneratePreview up to its first await (lines 61-90); the button is
\* disabled while isProcessing is rendered true
HandleGeneratePreview ==
  /\ gen.pc = "idle" /\ ~view.isProcessing
  /\ IF \A k \in 1..Len(segments) : ~hasContent(segments[k])
     THEN /\ globalError' = "Please generate audio or upload files"
          /\ gen' = [GenIdle EXCEPT !.outcome = "empty"]
          /\ UNCHANGED isProcessing
     ELSE /\ previewStarts
          /\ gen' = [GenIdle EXCEPT !.pc = "await", !.segs = segments,
                                    !.idx = nextAwait(segments, 1)]
  /\ UNCHANGED <<segments, previewUrl, view, nextId,
                 engineVars, voiceVars, trimVars>>

\* mutant: no finally block
previewFails_NoFinally ==
  /\ globalError' = "Failed to process audio"
  /\ UNCHANGED <<previewUrl, isProcessing>>

\* catch and finally (lines 110-115)
previewFails ==
  /\ globalError' = "Failed to process audio"
  /\ isProcessing' = FALSE
  /\ UNCHANGED previewUrl

\* the awaited decode / resample of segment gen.idx settles (lines 84-101);
\* after the last one the merge runs in the same turn (lines 102-108)
PreviewSettle ==
  /\ gen.pc = "await"
  /\ \E ok \in BOOLEAN, mergeOk \in BOOLEAN :
       LET list == mergeListPush(gen.mergeList, gen.segs[gen.idx])
           nxt == nextAwait(gen.segs, gen.idx + 1) IN
       IF ~ok
       THEN /\ previewFails
            /\ gen' = [GenIdle EXCEPT !.outcome = "failed"]
       ELSE IF nxt <= Len(gen.segs)
       THEN /\ gen' = [gen EXCEPT !.mergeList = list, !.idx = nxt]
            /\ UNCHANGED <<previewUrl, isProcessing, globalError>>
       ELSE IF ~mergeOk
       THEN /\ previewFails
            /\ gen' = [GenIdle EXCEPT !.outcome = "failed",
                                      !.mergeArgs = list, !.merged = TRUE]
       ELSE /\ previewUrl' = Url(gen.changed)
            /\ isProcessing' = FALSE
            /\ UNCHANGED globalError
            /\ gen' = [GenIdle EXCEPT !.outcome = "ok",
                                      !.mergeArgs = list, !.merged = TRUE]
  /\ UNCHANGED <<segments, view, nextId, engineVars, voiceVars, trimVars>>

NextApp ==
  \/ Render \/ HandleSegmentChange \/ HandleAddSegment \/ HandleRemoveSegment
  \/ HandleGeneratePreview \/ PreviewSettle

SpecApp == InitApp /\ [][NextApp]_vars

\* every awaited operation settles
FairApp == SpecApp /\ WF_vars(PreviewSettle)

\* ---------------------------------------------------------------------------
\* SegmentItem: speech generation and the voice preset
\* (src/components/SegmentItem.tsx)
\* ---------------------------------------------------------------------------

Voices == {"Puck", "Kore", "Zephyr"}
Texts == {"", "a", "b"}

\* audioBase64: null
NoAudio == [none |-> TRUE]

\* generateSpeech(text, voice, apiKey) resolves to the audio of text spoken
\* by voice
speechOf(text, voice) == [text |-> text, voice |-> voice]

\* the segment of useState in App (lines 12-21), reduced to the fields the
\* two handlers read and write
InitVoice ==
  /\ EngineUnused /\ AppUnused /\ TrimUnused
  /\ seg = [voice |-> "Puck", audioBase64 |-> NoAudio,
            isGeneratingAudio |-> FALSE, textRaw |-> "", error |-> "undefined"]
  /\ segSeen = seg
  /\ tts = TtsIdle

\* the button of line 1119, as rendered; the api key is present
generateDisabled(sg) == sg.isGeneratingAudio \/ sg.textRaw = ""

\* the textarea (line 1067); a change event, rendered before the next event
HandleTextChange ==
  /\ \E t \in Texts :
       /\ t # segSeen.textRaw
       /\ seg' = [seg EXCEPT !.textRaw = t]
  /\ segSeen' = seg'
  /\ UNCHANGED <<engineVars, appVars, trimVars, tts>>

\* handlePresetChange (lines 824-838); the select of lines 1081-1085 is
\* enabled whatever isGeneratingAudio is
HandlePresetChange ==
  /\ \E v \in Voices :
       seg' = [seg EXCEPT !.voice = v, !.audioBase64 = NoAudio]
  /\ segSeen' = seg'
  /\ UNCHANGED <<engineVars, appVars, trimVars, tts>>

\* handleGenerateAudio up to its await (lines 644-658): the request carries
\* the text and the voice of the render the click came from
HandleGenerateAudio ==
  /\ ~generateDisabled(segSeen)
  /\ tts.pc = "idle"
  /\ seg' = [seg EXCEPT !.isGeneratingAudio = TRUE, !.error = "undefined",
                        !.audioBase64 = NoAudio]
  /\ segSeen' = seg'
  /\ tts' = [pc |-> "await", text |-> segSeen.textRaw, voice |-> segSeen.voice]
  /\ UNCHANGED <<engineVars, appVars, trimVars>>

\* the request resolves (line 659)
TtsResolve ==
  /\ tts.pc = "await"
  /\ seg' = [seg EXCEPT !.isGeneratingAudio = FALSE,
                        !.audioBase64 = speechOf(tts.text, tts.voice)]
  /\ tts' = TtsIdle
  /\ UNCHANGED <<engineVars, appVars, trimVars, segSeen>>

\* the request rejects (lines 660-662)
TtsReject ==
  /\ tts.pc = "await"
  /\ seg' = [seg EXCEPT !.isGeneratingAudio = FALSE, !.error = "TTS failed"]
  /\ tts' = TtsIdle
  /\ UNCHANGED <<engineVars, appVars, trimVars, segSeen>>

\* the render that follows the settling of the promise
RenderSegment ==
  /\ segSeen # seg
  /\ segSeen' = seg
  /\ UNCHANGED <<engineVars, appVars, trimVars, seg, tts>>

NextVoice ==
  \/ HandleTextChange \/ HandlePresetChange \/ HandleGenerateAudio
  \/ TtsResolve \/ TtsReject \/ RenderSegment

SpecVoice == InitVoice /\ [][NextVoice]_vars

\* ---------------------------------------------------------------------------
\* SegmentItem: the trim handles of an uploaded audio segment
\* (src/components/SegmentItem.tsx)
\* ---------------------------------------------------------------------------

\* times are counted in quarters of a second
TimeUnit == 4
HalfSecond == TimeUnit \div 2

Durations == 1..MaxDuration

\* onloadedmetadata (lines 621-631)
uploaded(d) == [duration |-> d, trimStart |-> 0, trimEnd |-> d]

\* nothing uploaded yet
InitTrim ==
  /\ EngineUnused /\ AppUnused /\ VoiceUnused
  /\ trim = NoTrim
  /\ trimSeen = NoTrim
  /\ isDragging = "null"

\* mutant: the start handle may come right up to the end handle
startDragAllowed_NoGap(newTime, currentEnd) == newTime < currentEnd

\* line 765
startDragAllowed(newTime, currentEnd) == newTime < currentEnd - HalfSecond

\* line 770
endDragAllowed(newTime, currentStart) == newTime > currentStart + HalfSecond

\* handleAudioFileChange (lines 614-631), metadata loaded
HandleAudioFileChange ==
  /\ trim = NoTrim
  /\ \E d \in Durations : trim' = uploaded(d)
  /\ UNCHANGED <<engineVars, appVars, voiceVars, isDragging, trimSeen>>

\* mousedown / touchstart on a handle (lines 1011-1025), the render it
\* causes and the effect of that render (lines 777-782), which registers
\* handleMove with the segment of that render
GrabHandle ==
  /\ trim # NoTrim
  /\ isDragging = "null"
  /\ \E h \in {"start", "end"} : isDragging' = h
  /\ trimSeen' = trim
  /\ UNCHANGED <<engineVars, appVars, voiceVars, trim>>

\* handleMove (lines 753-775) for a pointer at newTime (lines 759-761 keep
\* it within 0..duration); it reads the segment of the render it was
\* registered in
HandleMove(newTime) ==
  /\ isDragging # "null"
  /\ trim' =
       IF isDragging = "start"
       THEN IF startDragAllowed(newTime, trimSeen.trimEnd)
            THEN [trim EXCEPT !.trimStart = newTime] ELSE trim
       ELSE IF endDragAllowed(newTime, trimSeen.trimStart)
            THEN [trim EXCEPT !.trimEnd = newTime] ELSE trim
  /\ UNCHANGED <<engineVars, appVars, voiceVars, isDragging, trimSeen>>

HandleMoveAny ==
  /\ trim # NoTrim
  /\ \E newTime \in 0..trim.duration : HandleMove(newTime)

\* handleUp (line 752)
HandleUp ==
  /\ isDragging # "null"
  /\ isDragging' = "null"
  /\ UNCHANGED <<engineVars, appVars, voiceVars, trim, trimSeen>>

\* the reset button (line 1044)
ResetTrim ==
  /\ trim # NoTrim
  /\ trim' = [trim EXCEPT !.trimStart = 0, !.trimEnd = trim.duration]
  /\ UNCHANGED <<engineVars, appVars, voiceVars, isDragging, trimSeen>>

\* a render after a segment update; the effect (deps of line 789) registers
\* handleMove anew
RenderTrim ==
  /\ trim # NoTrim
  /\ trimSeen # trim
  /\ trimSeen' = trim
  /\ UNCHANGED <<engineVars, appVars, voiceVars, trim, isDragging>>

NextTrim ==
  \/ HandleAudioFileChange \/ GrabHandle \/ HandleMoveAny
  \/ HandleUp \/ ResetTrim \/ RenderTrim

SpecTrimUI == InitTrim /\ [][NextTrim]_vars

\* ============================================================ assembler
\* What the claims speak of, written from their wording.
Done == run.pc = "done"
Returned == Done /\ run.error = "none" /\ run.result # NoBuffer
DelaysNonNegative == \A k \in 1..Len(items) : items[k].delay >= 0

\* floor(delay_k * sampleRate) at the assembly target rate
ClaimDelayFrames(k) == (items[k].delay * ContextRate) \div DelayDen
ClaimFrameCount(k) == items[k].buffer.length

\* offset_k: frames and delay frames of all items before k
RECURSIVE ClaimOffset(_)
ClaimOffset(k) ==
  IF k <= 1 THEN 0
  ELSE ClaimOffset(k - 1) + ClaimFrameCount(k - 1) + ClaimDelayFrames(k - 1)

ClaimTotal == ClaimOffset(Len(items) + 1)
Output == run.result.channels[1]

\* C1: with every delay >= 0 and a non-zero sum, the merge returns a buffer
\* whose frameCount is the sum over the items, in order, of
\* buffer.frameCount + floor(delay * sampleRate)
C1_LengthLaw ==
  (Done /\ DelaysNonNegative /\ ClaimTotal # 0) =>
    /\ Returned
    /\ run.result.length = ClaimTotal
    /\ Len(Output) = ClaimTotal

C1_Witness ==
  /\ Returned /\ DelaysNonNegative /\ Len(items) = 2
  /\ items[1].delay > 0 /\ items[2].delay > 0
  /\ run.result.length = ClaimFrameCount(1) + 2 + ClaimFrameCount(2) + 2

\* C2: order is preserved with hard cuts: sample j of item k's channel 0
\* stands at output[offset_k + j]; every other output frame is no item's
\* sample (nothing reordered, dropped, duplicated or blended)
InItemRange(p) ==
  \E k \in 1..Len(items) :
    p > ClaimOffset(k) /\ p <= ClaimOffset(k) + ClaimFrameCount(k)

C2_OrderPreserved ==
  (Returned /\ DelaysNonNegative /\ Len(items) > 0) =>
    /\ \A k \in 1..Len(items) : \A j \in 1..ClaimFrameCount(k) :
         /\ ClaimOffset(k) + j \in DOMAIN Output
         /\ Output[ClaimOffset(k) + j] = items[k].buffer.channels[1][j]
    /\ \A p \in DOMAIN Output : Output[p] # 0 => InItemRange(p)

C2_Witness ==
  /\ Returned /\ DelaysNonNegative /\ Len(items) = 2
  /\ ClaimFrameCount(1) = 2 /\ ClaimFrameCount(2) = 2
  /\ items[1].delay > 0
  /\ Output = <<101, 102, 0, 0, 201, 202>>

\* C3: every sample of the delay region that follows an item is exactly 0
C3_SilenceLaw ==
  (Returned /\ DelaysNonNegative) =>
    \A k \in 1..Len(items) :
      \A p \in (ClaimOffset(k) + ClaimFrameCount(k) + 1) ..
               (ClaimOffset(k) + ClaimFrameCount(k) + ClaimDelayFrames(k)) :
        p \in DOMAIN Output /\ Output[p] = 0

C3_Witness ==
  /\ Returned /\ DelaysNonNegative /\ Len(items) = 2
  /\ ClaimDelayFrames(1) = 2 /\ ClaimDelayFrames(2) = 2
  /\ Output[ClaimFrameCount(1) + 1] = 0 /\ Output[ClaimFrameCount(1) + 2] = 0
  /\ Output[Len(Output)] = 0

\* C4: an empty item list, or items whose total computed length is zero,
\* yield a one-channel buffer of one zero frame at the target rate, no failure
C4_EmptyTimeline ==
  (Done /\ (Len(items) = 0 \/ ClaimTotal = 0)) =>
    /\ run.error = "none"
    /\ run.result = [numberOfChannels |-> 1, length |-> 1,
                     sampleRate |-> ContextRate, channels |-> << <<0>> >>]

C4_Witness == Done /\ Len(items) = 0 /\ run.result # NoBuffer

C4_WitnessZeroTotal ==
  Done /\ Len(items) > 0 /\ ClaimTotal = 0 /\ run.result # NoBuffer

\* C5: the output is mono and depends only on channel 0: the list itemsAlt,
\* which agrees with items on channel 0 and on the delays and differs in
\* channels 1..N, gives the identical outcome
AgreeOnChannel0 ==
  /\ Len(items) = Len(itemsAlt)
  /\ \A k \in 1..Len(items) :
       /\ items[k].delay = itemsAlt[k].delay
       /\ items[k].buffer.channels[1] = itemsAlt[k].buffer.channels[1]

C5_MonoChannel0Only ==
  (Done /\ runAlt.pc = "done" /\ AgreeOnChannel0) =>
    /\ run.result = runAlt.result
    /\ run.error = runAlt.error
    /\ run.result # NoBuffer =>
         run.result.numberOfChannels = 1 /\ Len(run.result.channels) = 1

C5_Witness ==
  /\ Returned /\ runAlt.pc = "done" /\ Len(items) = 2
  /\ items[1].buffer.numberOfChannels = 2
  /\ itemsAlt[1].buffer.numberOfChannels = 1
  /\ items[2].buffer.channels # itemsAlt[2].buffer.channels
  /\ run.result.length > 1

\* C6: no resampling: the output rate is the target rate whatever the item
\* rates are, and an item at another rate contributes exactly its own
\* frameCount samples, unchanged
OffRate(k) == items[k].buffer.sampleRate # ContextRate

C6_NoResample ==
  (Returned /\ DelaysNonNegative) =>
    /\ run.result.sampleRate = ContextRate
    /\ \A k \in 1..Len(items) : OffRate(k) =>
         /\ SubSeq(Output, ClaimOffset(k) + 1, ClaimOffset(k) + ClaimFrameCount(k))
              = items[k].buffer.channels[1]
         /\ IF k < Len(items)
            THEN Output[ClaimOffset(k) + ClaimFrameCount(k) + ClaimDelayFrames(k) + 1]
                   = items[k + 1].buffer.channels[1][1]
            ELSE run.result.length = ClaimOffset(k) + ClaimFrameCount(k)
                                       + ClaimDelayFrames(k)

C6_Witness ==
  /\ Returned /\ DelaysNonNegative /\ Len(items) = 2
  /\ OffRate(1) /\ ~OffRate(2)
  /\ run.result.sampleRate = 24000
  /\ run.result.length = ClaimTotal /\ ClaimTotal > 2

\* ================================================================ codecs
\* Readers of the emitted bytes, written from the WAV layout (offsets from 0).
U16At(bytes, off) == bytes[off + 1] + 256 * bytes[off + 2]
U32At(bytes, off) ==
  bytes[off + 1] + 256 * bytes[off + 2] + 65536 * bytes[off + 3]
    + 16777216 * bytes[off + 4]
S16At(bytes, off) ==
  IF U16At(bytes, off) >= 32768 THEN U16At(bytes, off) - 65536 ELSE U16At(bytes, off)
Ascii4(bytes, off) == SubSeq(bytes, off + 1, off + 4)

Encoded == enc.pc = "done"
WavChannels == wavBuffer.numberOfChannels
WavFrames == wavBuffer.length
WavDataBytes == WavFrames * WavChannels * 2

\* the canonical 44-byte header for a channel count, a rate and a data length
CanonicalHeader(hdr, channels, sampleRate, dataBytes) ==
  /\ Len(hdr) = 44
  /\ Ascii4(hdr, 0) = <<82, 73, 70, 70>>       \* 'RIFF'
  /\ U32At(hdr, 4) = 36 + dataBytes
  /\ Ascii4(hdr, 8) = <<87, 65, 86, 69>>       \* 'WAVE'
  /\ Ascii4(hdr, 12) = <<102, 109, 116, 32>>   \* 'fmt '
  /\ U32At(hdr, 16) = 16
  /\ U16At(hdr, 20) = 1
  /\ U16At(hdr, 22) = channels
  /\ U32At(hdr, 24) = sampleRate
  /\ U32At(hdr, 28) = sampleRate * channels * 2
  /\ U16At(hdr, 32) = channels * 2
  /\ U16At(hdr, 34) = 16
  /\ Ascii4(hdr, 36) = <<100, 97, 116, 97>>    \* 'data'
  /\ U32At(hdr, 40) = dataBytes

\* C7: bufferToWav emits exactly 44 + frameCount * channels * 2 bytes that
\* begin with the canonical header, both size fields computed from the
\* buffer; createWavHeader builds the same header for the same data length
C7_WavHeader ==
  Encoded =>
    /\ Len(enc.blob) = 44 + WavFrames * WavChannels * 2
    /\ CanonicalHeader(SubSeq(enc.blob, 1, 44), WavChannels,
                       wavBuffer.sampleRate, WavDataBytes)
    /\ CanonicalHeader(createWavHeader(WavDataBytes, wavBuffer.sampleRate, WavChannels),
                       WavChannels, wavBuffer.sampleRate, WavDataBytes)

C7_Witness ==
  /\ Encoded /\ WavChannels = 2 /\ WavFrames = 2 /\ wavBuffer.sampleRate = 44100
  /\ Len(enc.blob) = 52
  /\ U32At(enc.blob, 4) = 44 /\ U32At(enc.blob, 40) = 8
  /\ U32At(enc.blob, 28) = 176400

\* the 16-bit value the claim assigns to a sample (units of 1 / SampleDen):
\* clamp to [-1, 1], then * 32768 below zero and * 32767 from zero up
ClaimClamp(sample) ==
  IF sample < -SampleDen THEN -SampleDen
  ELSE IF sample > SampleDen THEN SampleDen ELSE sample
ClaimPcm(sample) ==
  IF ClaimClamp(sample) < 0
  THEN -(((-ClaimClamp(sample)) * 32768) \div SampleDen)
  ELSE (ClaimClamp(sample) * 32767) \div SampleDen

WordOffset(c, f) == 44 + 2 * (f * WavChannels + c)
WavSampleAt(c, f) == wavBuffer.channels[c + 1][f + 1]

\* C8: every sample, also outside [-1, 1], is encoded as a signed 16-bit
\* value in [-32768, 32767] without wrap-around: clamped, then scaled by
\* 32768 (negative) or 32767 (non-negative); -1.0 and below give -32768,
\* +1.0 and above give 32767
C8_PcmEncodeClamped ==
  Encoded =>
    \A c \in 0..(WavChannels - 1) : \A f \in 0..(WavFrames - 1) :
      LET v == S16At(enc.blob, WordOffset(c, f))
          x == WavSampleAt(c, f) IN
      /\ v >= -32768 /\ v <= 32767
      /\ v = ClaimPcm(x)
      /\ x <= -SampleDen => v = -32768
      /\ x >= SampleDen => v = 32767
      /\ (x < 0) = (v < 0)

C8_Witness ==
  /\ Encoded /\ WavChannels = 1 /\ WavFrames = 2
  /\ WavSampleAt(0, 0) = 49152 /\ WavSampleAt(0, 1) = -65536
  /\ S16At(enc.blob, 44) = 32767 /\ S16At(enc.blob, 46) = -32768

\* C9: the payload is interleaved frame by frame in channel order: the
\* encoded value of channel c at frame f is at byte offset
\* 44 + 2 * (f * channels + c)
C9_Interleaved ==
  Encoded =>
    \A c \in 0..(WavChannels - 1) : \A f \in 0..(WavFrames - 1) :
      /\ WordOffset(c, f) + 2 <= Len(enc.blob)
      /\ SubSeq(enc.blob, WordOffset(c, f) + 1, WordOffset(c, f) + 2)
           = LE16(Trunc(scaleSample(clampSample(WavSampleAt(c, f))), SampleDen))

C9_Witness ==
  /\ Encoded /\ WavChannels = 2 /\ WavFrames = 2
  /\ wavBuffer.channels = << <<-32768, -1>>, <<-32767, 0>> >>
  /\ S16At(enc.blob, 44) = -32768 /\ S16At(enc.blob, 46) = -32767
  /\ S16At(enc.blob, 48) = -1 /\ S16At(enc.blob, 50) = 0

\* C10: decoding an even-length byte sequence gives a one-channel buffer at
\* 24000 Hz with frameCount = len / 2 whose sample i is v_i / 32768, v_i the
\* signed 16-bit little-endian word at bytes 2i, 2i + 1; bufferToWav of that
\* buffer is 44 + len bytes long
DecodeEnded == dec.pc \in {"done", "failed"}

Representable ==
  \A c \in 1..WavChannels : \A j \in 1..WavFrames :
    wavBuffer.channels[c][j] >= -SampleDen /\ wavBuffer.channels[c][j] <= SampleDen

Abs(x) == IF x < 0 THEN -x ELSE x

\* | n / SampleDen - q[1] / q[2] | <= 1 / 32767
WithinOneStep(n, q) ==
  Abs(n * q[2] - q[1] * SampleDen) <= (q[2] * SampleDen) \div 32767

C12_WavRoundTrip ==
  (rd.pc # "idle" /\ Representable) =>
    /\ rd.pc = "done"
    /\ rd.buffer.sampleRate = wavBuffer.sampleRate
    /\ rd.buffer.numberOfChannels = WavChannels
    /\ rd.buffer.length = WavFrames
    /\ \A c \in 1..WavChannels : \A j \in 1..WavFrames :
         WithinOneStep(wavBuffer.channels[c][j], rd.buffer.channels[c][j])

C12_Witness ==
  /\ rd.pc = "done" /\ WavChannels = 2 /\ WavFrames = 2
  /\ wavBuffer.channels = << <<-1, 1>>, <<0, 16384>> >>
  /\ rd.buffer.channels
       = << << <<-1, 32768>>, <<0, 32767>> >>, << <<0, 32767>>, <<16383, 32767>> >> >>

\* ---------------------------------------------------------- transform claims
XfEnded == xf.pc \in {"done", "failed"}
Resampled == xfArgs.op = "resample" /\ XfEnded
Converted == xfArgs.op = "convert" /\ XfEnded
Trimmed == xfArgs.op = "trim" /\ XfEnded

\* C13: resample(b, 1.0) returns b itself, the same reference with the same
\* samples, frameCount and sampleRate, and renders nothing
C13_ResampleIdentity ==
  (Resampled /\ xfArgs.speed = UnitSpeed) =>
    /\ xf.pc = "done"
    /\ xf.sameRef
    /\ xf.result = xfBuffer

C13_Witness ==
  /\ Resampled /\ xfArgs.speed = UnitSpeed /\ xf.pc = "done" /\ xf.sameRef
  /\ xfBuffer.numberOfChannels = 2 /\ xfBuffer.length = 3
  /\ xf.result.channels = << <<101, 102, 103>>, <<201, 202, 203>> >>

\* C14: for every speed > 0, resample(b, speed) has floor(frameCount / speed)
\* frames to within one frame, and the sampleRate and channel count of b
C14_ResampleDuration ==
  (Resampled /\ xfArgs.speed.sign = 1) =>
    /\ xf.pc = "done"
    /\ Abs(xf.result.length
             - Floor(xfBuffer.length * xfArgs.speed.denLo, xfArgs.speed.num)) <= 1
    /\ xf.result.sampleRate = xfBuffer.sampleRate
    /\ xf.result.numberOfChannels = xfBuffer.numberOfChannels

\* a one-frame buffer at speed 1.25: the length handed to the renderer is 0
C14_FailingInput ==
  /\ Resampled /\ xfArgs.speed = Speed(1, 5, 0, 4) /\ xfBuffer.length = 1
  /\ xf.pc = "failed" /\ xf.error = "NotSupportedError"

\* C15: resample(b, speed) with speed <= 0 fails with InvalidParameter and
\* produces no buffer
C15_ResampleBadSpeed ==
  (Resampled /\ xfArgs.speed.sign <= 0) =>
    /\ xf.pc = "failed"
    /\ xf.error = "InvalidParameter"
    /\ xf.result = NoBuffer

\* speed -1 / (2^32 - 256): the negative length wraps to 256 frames per
\* input frame and the call returns a buffer
C15_FailingInput ==
  /\ Resampled /\ xfArgs.speed = Speed(-1, 1, 65535, 65280)
  /\ xfBuffer.length = 2 /\ xf.pc = "done" /\ xf.result.length = 512

\* C16: convertRate(b, targetRate) returns b unchanged at an equal rate, and
\* otherwise a buffer at targetRate with the same channel count and
\* round(frameCount * targetRate / sampleRate) frames
Round(num, den) == Floor(2 * num + den, 2 * den)

C16_ConvertRate ==
  Converted =>
    /\ xf.pc = "done"
    /\ xfBuffer.sampleRate = xfArgs.targetRate =>
         xf.sameRef /\ xf.result = xfBuffer
    /\ xfBuffer.sampleRate # xfArgs.targetRate =>
         /\ xf.result.sampleRate = xfArgs.targetRate
         /\ xf.result.numberOfChannels = xfBuffer.numberOfChannels
         /\ xf.result.length
              = Round(xfBuffer.length * xfArgs.targetRate, xfBuffer.sampleRate)

\* 3 frames at 44100 Hz to 24000 Hz: 1.63 frames become 1, not 2
C16_FailingInput ==
  /\ Converted /\ xfBuffer.length = 3 /\ xfBuffer.sampleRate = 44100
  /\ xfArgs.targetRate = 24000 /\ xf.pc = "done" /\ xf.result.length = 1

\* the clamped range and its frame indices in exact arithmetic
ClaimStart == IF xfArgs.startTime.num < 0 THEN Time(0) ELSE xfArgs.startTime
ClaimEnd ==
  IF TimeLess(duration(xfBuffer), xfArgs.endTime)
  THEN duration(xfBuffer) ELSE xfArgs.endTime
ClaimFrame(time) == Floor(time.num * xfBuffer.sampleRate, time.den)

\* C17: when the clamped startTime < endTime, trim returns a buffer of the
\* same sampleRate and channel count with floor(endTime * sampleRate)
\* - floor(startTime * sampleRate) frames, output sample j of channel c being
\* input sample floor(startTime * sampleRate) + j
C17_TrimCopies ==
  (Trimmed /\ TimeLess(ClaimStart, ClaimEnd)) =>
    /\ xf.pc = "done"
    /\ xf.result.sampleRate = xfBuffer.sampleRate
    /\ xf.result.numberOfChannels = xfBuffer.numberOfChannels
    /\ xf.result.length = ClaimFrame(ClaimEnd) - ClaimFrame(ClaimStart)
    /\ \A c \in 1..xfBuffer.numberOfChannels :
         \A j \in 1..xf.result.length :
           xf.result.channels[c][j]
             = xfBuffer.channels[c][ClaimFrame(ClaimStart) + j]

\* 1 / 2^16 s to 2 / 2^16 s at 24000 Hz: both times fall in frame 0
C17_FailingInput ==
  /\ Trimmed /\ xfArgs.startTime = Time(1) /\ xfArgs.endTime = Time(2)
  /\ xfBuffer.sampleRate = 24000 /\ xfBuffer.length = 3
  /\ ClaimFrame(ClaimEnd) - ClaimFrame(ClaimStart) = 0
  /\ xf.pc = "failed"

\* C18: for startTime <= 0 and endTime >= b.duration, trim(b, startTime,
\* endTime) equals trim(b, 0, b.duration), which holds all of b's frames
C18_TrimClamps ==
  (Trimmed /\ xfArgs.startTime.num <= 0
     /\ ~TimeLess(xfArgs.endTime, duration(xfBuffer))) =>
    /\ xf = trimAudioBuffer(xfBuffer, Time(0), duration(xfBuffer))
    /\ xf.pc = "done"
    /\ xf.result.length = xfBuffer.length
    /\ xf.result.channels = xfBuffer.channels

\* 15 frames at 44100 Hz: the clamped end falls in frame 14
C18_FailingInput ==
  /\ Trimmed /\ xfArgs.startTime = Time(-3) /\ xfArgs.endTime = Time(64)
  /\ xfBuffer.sampleRate = 44100 /\ xfBuffer.length = 15
  /\ xf.pc = "done" /\ xf.result.length = 14

\* C19: when the clamped startTime >= endTime, trim raises no error and
\* returns a buffer at the input's sample rate with one zero frame in each
\* channel and as many channels as the input
C19_TrimDegenerate ==
  (Trimmed /\ ~TimeLess(ClaimStart, ClaimEnd)) =>
    /\ xf.pc = "done"
    /\ xf.result.sampleRate = xfBuffer.sampleRate
    /\ xf.result.length = 1
    /\ xf.result.numberOfChannels = xfBuffer.numberOfChannels
    /\ xf.result.channels = [c \in 1..xfBuffer.numberOfChannels |-> <<0>>]

\* a two-channel buffer and an empty range: the result has one channel
C19_FailingInput ==
  /\ Trimmed /\ xfArgs.startTime = Time(3) /\ xfArgs.endTime = Time(3)
  /\ xfBuffer.numberOfChannels = 2
  /\ xf.pc = "done" /\ xf.result.numberOfChannels = 1
  /\ xf.result.channels = << <<0>> >>

\* C20: trim never fails; also when startTime < endTime and the two frame
\* indices coincide it returns a buffer of at least one frame
C20_TrimNeverFails ==
  Trimmed => xf.pc = "done" /\ xf.result.length >= 1

\* 0 s to 2 / 2^16 s at 24000 Hz: new AudioBuffer is asked for 0 frames
C20_FailingInput ==
  /\ Trimmed /\ xfArgs.startTime = Time(0) /\ xfArgs.endTime = Time(2)
  /\ xfBuffer.sampleRate = 24000
  /\ xf.pc = "failed" /\ xf.error = "NotSupportedError"

\* ------------------------------------------------------- merge, once more
\* C21: a merge given an item with delay < 0 fails with InvalidParameter
\* before producing an output buffer; it returns no buffer shorter than the
\* sum of the item frame counts and none in which one item's samples lie
\* over another's
C21_NegativeDelayRejected ==
  (Done /\ ~DelaysNonNegative) =>
    /\ run.error = "InvalidParameter"
    /\ run.result = NoBuffer

\* a 2-frame item of delay -1 / 2^14 s (-2 frames), then a 2-frame item: the
\* second is written over the first and the buffer is returned
C21_FailingInput ==
  /\ Returned /\ Len(items) = 2
  /\ items[1].delay = -1 /\ items[1].buffer.length = 2
  /\ items[2].delay = 2 /\ items[2].buffer.length = 2
  /\ Output = <<201, 202, 0, 0>>

\* C30: with every delay >= 0 and a non-zero total every copy stays inside
\* the output: before item k is copied offset + frameCount_k <= totalLength,
\* offset never decreases, and after the last item offset = totalLength
C30_CopyInBounds ==
  /\ [](DelaysNonNegative =>
          /\ (run.pc = "copy" /\ run.idx <= Len(items)) =>
               /\ run.offset >= 0
               /\ run.offset + items[run.idx].buffer.length <= run.totalLength
               /\ run.totalLength = Len(run.outputData)
               /\ run.error = "none"
          /\ ((run.pc = "copy" /\ run.idx > Len(items))
                \/ (Done /\ run.totalLength # 0)) =>
               run.offset = run.totalLength /\ run.error = "none")
  /\ [][DelaysNonNegative => run'.offset >= run.offset]_vars

C30_Witness ==
  /\ run.pc = "copy" /\ run.idx = 3 /\ Len(items) = 2
  /\ items[1].delay = 2 /\ items[2].delay = 2
  /\ items[1].buffer.length = 2 /\ items[2].buffer.length = 1
  /\ run.offset = 7 /\ run.totalLength = 7

\* C22: no engine operation changes its inputs: while trim, merge,
\* bufferToWav, resample or convert runs, and when it has returned or failed,
\* the samples, frameCount, channel count and sampleRate of every input
\* buffer are those of before the call
C22_InputsUntouched ==
  [][/\ items' = items
     /\ itemsAlt' = itemsAlt
     /\ xfBuffer' = xfBuffer
     /\ enc.pc # "idle" => wavBuffer' = wavBuffer]_vars

\* bufferToWav has clamped the out-of-range samples of its input, which
\* still holds them
C22_Witness ==
  /\ Encoded /\ wavBuffer.numberOfChannels = 1
  /\ wavBuffer.channels = << <<49152, -65536>> >>
  /\ S16At(enc.blob, 44) = 32767 /\ S16At(enc.blob, 46) = -32768

\* -------------------------------------------------------------- App claims
\* the merge items of the segments that hold audio, in list order
RECURSIVE ContentOf(_)
ContentOf(segs) ==
  IF segs = <<>> THEN <<>>
  ELSE IF hasContent(Head(segs))
  THEN <<[buffer |-> Head(segs).id, delay |-> Head(segs).delay]>>
         \o ContentOf(Tail(segs))
  ELSE ContentOf(Tail(segs))

\* C23: the merge is called only when the decode / resample of every segment
\* has completed, with the buffers in segment-list order, each with the
\* delay of its own segment
C23_MergeAfterAllInOrder ==
  [][(gen.pc = "await" /\ gen'.merged) =>
       /\ gen'.mergeArgs = ContentOf(gen.segs)
       /\ \A k \in 1..Len(gen.segs) : hasContent(gen.segs[k]) => k <= gen.idx]_vars

C23_Witness ==
  /\ gen.merged /\ gen.outcome = "ok"
  /\ gen.mergeArgs = <<[buffer |-> 1, delay |-> 0], [buffer |-> 2, delay |-> 2]>>

\* C24: whenever previewUrl is non-null the preview was built from the
\* current segment list; a change, addition or removal after the generation
\* read the segments leaves previewUrl null once the generation completes
C24_PreviewCurrent == previewUrl # NoUrl => ~previewUrl.changedSince

\* a segment was changed while the generation awaited, and the preview of
\* the list as it was is shown
C24_FailingInput ==
  /\ previewUrl = Url(TRUE) /\ gen.outcome = "ok" /\ gen.pc = "idle"
  /\ view = ViewOf(segments, previewUrl, FALSE)

C28_ProcessingEnds ==
  /\ [](gen.pc = "await" => isProcessing)
  /\ [](gen.pc = "idle" => ~isProcessing)
  /\ (isProcessing ~> ~isProcessing)

C28_Witness ==
  /\ gen.pc = "await" /\ gen.idx = 2 /\ Len(gen.mergeList) = 1 /\ isProcessing

\* C29: a generation that fails, for want of audio or because a step throws,
\* sets globalError to a message and leaves previewUrl and the segment list
\* as they are; one that succeeds sets previewUrl and leaves globalError null
C29_PreviewOutcome ==
  [][/\ ((PreviewSettle /\ gen'.outcome = "failed")
           \/ (HandleGeneratePreview /\ gen'.pc = "idle")) =>
          /\ globalError' # NoError
          /\ previewUrl' = previewUrl
          /\ segments' = segments
     /\ (PreviewSettle /\ gen'.outcome = "ok") =>
          /\ previewUrl' # NoUrl
          /\ globalError' = NoError
          /\ segments' = segments]_vars

\* a run failed after an earlier one had succeeded: the message is set and
\* the earlier preview is still there
C29_Witness ==
  /\ gen.pc = "idle" /\ gen.outcome = "failed"
  /\ globalError = "Failed to process audio" /\ previewUrl # NoUrl

\* ---------------------------------------------------------------------------
\* SegmentItem claims
\* ---------------------------------------------------------------------------

\* C25: whenever a text segment holds generated audio, the audio was
\* generated with the segment's current voice, a preset change during a
\* request in flight included
C25_AudioOfCurrentVoice ==
  (seg # NoSegment /\ seg.audioBase64 # NoAudio) =>
    seg.audioBase64.voice = seg.voice

\* the preset went from Puck to Kore while Puck's request was in flight
C25_FailingInput ==
  /\ seg # NoSegment
  /\ seg.voice = "Kore" /\ seg.audioBase64 = speechOf("a", "Puck")
  /\ ~seg.isGeneratingAudio /\ tts = TtsIdle /\ segSeen = seg

TrimWithinBounds ==
  /\ 0 <= trim.trimStart
  /\ trim.trimStart < trim.trimEnd
  /\ trim.trimEnd <= trim.duration
  /\ trim.trimEnd - trim.trimStart > HalfSecond

\* what the segment would be if the handle went to newTime
Dragged(newTime) ==
  IF isDragging = "start" THEN [trim EXCEPT !.trimStart = newTime]
  ELSE [trim EXCEPT !.trimEnd = newTime]

\* C27: for an upload of more than half a second, after the upload and any
\* drags and resets, 0 <= trimStart < trimEnd <= duration and trimEnd -
\* trimStart > 0.5 s; a drag that would break this changes nothing
C27_TrimInvariant ==
  /\ []((trim # NoTrim /\ trim.duration > HalfSecond) => TrimWithinBounds)
  /\ [][\A newTime \in 0..MaxDuration :
          (/\ trim # NoTrim /\ trim.duration > HalfSecond
           /\ newTime <= trim.duration
           /\ HandleMove(newTime)
           /\ LET d == Dragged(newTime)
              IN ~(/\ 0 <= d.trimStart /\ d.trimStart < d.trimEnd
                   /\ d.trimEnd <= d.duration
                   /\ d.trimEnd - d.trimStart > HalfSecond))
          => trim' = trim]_vars

\* both handles were dragged as close as they may come on a 1.5 s upload
C27_Witness ==
  /\ trim # NoTrim /\ trim.duration = 6
  /\ trim.trimStart = 2 /\ trim.trimEnd = 5
  /\ isDragging = "start" /\ trimSeen = trim

====
